---------------------------- MODULE Spec2Model ----------------------------
(***************************************************************************)
(* Model of zipsplit (src/zipsplit.go): the run of main() from the parsed  *)
(* flags to the process exit, with the namer, the size parser, the packer  *)
(* (fit) and the archive assembler (makeZip).                              *)
(*                                                                         *)
(* uint64 values are kept as integer representatives modulo 2^64: a        *)
(* non-negative r stands for r, a negative r stands for 2^64 + r.  All     *)
(* magnitudes of the model stay far below 2^31, so a representative is     *)
(* negative exactly when the Go value has wrapped below zero.              *)
(***************************************************************************)
EXTENDS Integers, Sequences, FiniteSets, TLC

\* Longest directory listing of the source archive that is explored.
MaxFiles == 3

\* Largest argument with which a template's output is probed.
MaxProbe == 3

-----------------------------------------------------------------------------
(* Inputs *)

\* zip.FileHeader values the source archive may list (Name is the key).
Headers ==
  { [Name |-> "a",  CompressedSize64 |-> 200, Comment |-> "",    Extra |-> <<>>],
    [Name |-> "bb", CompressedSize64 |-> 100, Comment |-> "xyz", Extra |-> <<>>],
    [Name |-> "c",  CompressedSize64 |-> 100, Comment |-> "",    Extra |-> <<1, 2, 3, 4>>],
    [Name |-> "d",  CompressedSize64 |-> 0,   Comment |-> "",    Extra |-> <<>>],
    [Name |-> "e",  CompressedSize64 |-> 0,   Comment |-> "",    Extra |-> <<>>] }

\* Directory listings: sequences of distinct headers, in archive order.
Listings ==
  { s \in UNION { [1..m -> Headers] : m \in 0..MaxFiles } :
      \A x, y \in 1..Len(s) : x # y => s[x] # s[y] }

\* Values of the -s flag, one character per element.
SizeStrings ==
  { <<"0">>, <<>>, <<"2", "x">>, <<"1", "0", "0">>, <<"2", "0", "0">>,
    <<"3", "0", "0">>, <<"6", "0", "0">>, <<"1", " ", "K", "b">> }

\* Values of the -out flag, split into literal text and formatting verbs.
Templates ==
  { <<"out-", "%03d", ".zip">>, <<"out.zip">>, <<"%[2]d">>, <<"part", "%s">> }

\* Values of the -in flag.
SourceArchives == { "", "in.zip" }

VARIABLES
  sourceArchive,    \* flag -in
  splitSizeString,  \* flag -s
  nameTemplate,     \* flag -out
  archive,          \* directory of the source archive on disk
  config,           \* Config built by main
  files,            \* main's files slice
  buckets,          \* fit's buckets slice
  n,                \* counter captured by the namer closure
  i,                \* index of fit's range loop over files
  k,                \* index of main's range loop over buckets
  disk,             \* output files on disk, by filename
  results,          \* value returned by makeZip for each bucket handled
  steps,            \* steps of main executed so far, in order
  pc,               \* position in main
  exit              \* "running", or how the process ended

vars == << sourceArchive, splitSizeString, nameTemplate, archive, config,
           files, buckets, n, i, k, disk, results, steps, pc, exit >>

-----------------------------------------------------------------------------
(* uint64 arithmetic on representatives *)

U64Sub(a, b) == a - b

U64Add(a, b) == a + b

U64Less(a, b) ==
  IF (a < 0) = (b < 0) THEN a < b ELSE b < 0

U64Leq(a, b) == a = b \/ U64Less(a, b)

-----------------------------------------------------------------------------
(* fmt.Sprintf(template, n) with a single int argument.  The output is a   *)
(* sequence of pieces <<text, number>>; number is -1 where none is shown.  *)

ArgVerbs == { "%d", "%03d", "%s" }

ErrorMarks == { "%!s(int=", "%!d(BADINDEX)", "%!(EXTRA int=" }

FormatPiece(p, arg) ==
  CASE p \in { "%d", "%03d" } -> << p, arg >>
    [] p = "%s"               -> << "%!s(int=", arg >>
    [] p = "%[2]d"            -> << "%!d(BADINDEX)", -1 >>
    [] OTHER                  -> << p, -1 >>

Sprintf(template, arg) ==
  LET body      == [ j \in 1..Len(template) |-> FormatPiece(template[j], arg) ]
      consumed  == \E j \in 1..Len(template) : template[j] \in ArgVerbs
      reordered == \E j \in 1..Len(template) : template[j] = "%[2]d"
  IN  IF ~consumed /\ ~reordered
        THEN Append(body, << "%!(EXTRA int=", arg >>)
        ELSE body

\* strings.Contains(s, "%!")
ContainsBang(s) == \E j \in 1..Len(s) : s[j][1] \in ErrorMarks

\* A validation that only compares the two outputs.
NamerRejectsEqualOnly(template) ==
  Sprintf(template, 0) = Sprintf(template, 1)

\* numberedFileNamer's validation: TRUE when it returns the error.
NamerRejects(template) ==
  LET a == Sprintf(template, 0)
      b == Sprintf(template, 1)
  IN  a = b \/ ContainsBang(a)

\* The closure returned by numberedFileNamer: the name for counter value c.
NewZipName(template, c) == Sprintf(template, c)

-----------------------------------------------------------------------------
(* humanToNumber *)

Digits == << "0", "1", "2", "3", "4", "5", "6", "7", "8", "9" >>

IsDigit(c) == \E d \in 1..10 : Digits[d] = c

DigitValue(c) == (CHOOSE d \in 1..10 : Digits[d] = c) - 1

UpperCase == << "A", "B", "C", "D", "E", "F", "G", "H", "I", "J", "K", "L", "M",
                "N", "O", "P", "Q", "R", "S", "T", "U", "V", "W", "X", "Y", "Z" >>

LowerCase == << "a", "b", "c", "d", "e", "f", "g", "h", "i", "j", "k", "l", "m",
                "n", "o", "p", "q", "r", "s", "t", "u", "v", "w", "x", "y", "z" >>

ToLower(s) ==
  [ j \in 1..Len(s) |->
      IF \E u \in 1..26 : UpperCase[u] = s[j]
        THEN LowerCase[CHOOSE u \in 1..26 : UpperCase[u] = s[j]]
        ELSE s[j] ]

RECURSIVE TrimLeft(_)
TrimLeft(s) ==
  IF s # <<>> /\ Head(s) = " " THEN TrimLeft(Tail(s)) ELSE s

RECURSIVE TrimRight(_)
TrimRight(s) ==
  IF s # <<>> /\ s[Len(s)] = " " THEN TrimRight(SubSeq(s, 1, Len(s) - 1)) ELSE s

TrimSpace(s) == TrimRight(TrimLeft(s))

\* The byte-size constants: 1 << (iota * 10).
Byte  == 1
KByte == 2^10
MByte == 2^20
GByte == 2^30
TByte == 2^40
EByte == 2^50

\* sizeTable; a missing key yields the zero value.
SizeTable(suffix) ==
  CASE suffix \in { <<>>, <<"b">> }         -> Byte
    [] suffix \in { <<"k">>, <<"k", "b">> } -> KByte
    [] suffix \in { <<"m">>, <<"m", "b">> } -> MByte
    [] suffix \in { <<"g">>, <<"g", "b">> } -> GByte
    [] suffix \in { <<"t">>, <<"t", "b">> } -> TByte
    [] suffix \in { <<"e">>, <<"e", "b">> } -> EByte
    [] OTHER                                -> 0

\* Number of leading digits of s.
RECURSIVE SplitPoint(_)
SplitPoint(s) ==
  IF s = <<>> \/ ~IsDigit(Head(s)) THEN 0 ELSE 1 + SplitPoint(Tail(s))

\* strconv.ParseUint(ds, 10, 64) on a string of digits: -1 is the error.
RECURSIVE ParseUint(_)
ParseUint(ds) ==
  IF ds = <<>> THEN -1
  ELSE IF Len(ds) = 1 THEN DigitValue(ds[1])
  ELSE 10 * ParseUint(SubSeq(ds, 1, Len(ds) - 1)) + DigitValue(ds[Len(ds)])

humanToNumber(s) ==
  LET splitPoint == SplitPoint(s)
      number     == ParseUint(SubSeq(s, 1, splitPoint))
      suffix     == ToLower(TrimSpace(SubSeq(s, splitPoint + 1, Len(s))))
  IN  IF number = -1 THEN 0 ELSE number * SizeTable(suffix)

-----------------------------------------------------------------------------
(* sort.Sort(sort.Reverse(bySize(files))) *)

\* bySize.Less on two headers.
Less(x, y) == x.CompressedSize64 < y.CompressedSize64

\* sort.Reverse: Less with the arguments exchanged.
ReverseLess(x, y) == Less(y, x)

\* sort.Sort orders the slice by the given Less and does not promise to keep
\* equal elements in their original order: every ordered permutation is a
\* possible outcome.
SortOutcomes(fs) ==
  { [ j \in 1..Len(fs) |-> fs[p[j]] ] : p \in
      { q \in Permutations(1..Len(fs)) :
          \A x, y \in 1..Len(fs) : x < y => ~ReverseLess(fs[q[y]], fs[q[x]]) } }

-----------------------------------------------------------------------------
(* fit *)

LocalHeaderSize   == 30
LocalExtraSize    == 16
CentralRecordSize == 46
EndRecordSize     == 22

\* totalSize of one file, as computed inside fit's inner loop.
TotalSize(file) ==
  U64Add(Len(file.Name) + LocalHeaderSize + LocalExtraSize + CentralRecordSize
           + Len(file.Name) + Len(file.Comment) + Len(file.Extra),
         file.CompressedSize64)

\* The test of fit's inner loop for one bucket.
Fits(bucket, file, cfg) ==
  U64Leq(U64Add(bucket.size, TotalSize(file)), U64Sub(cfg.splitSize, EndRecordSize))

\* The bucket after the file was added to it.
AddFile(bucket, file) ==
  [ bucket EXCEPT !.size = U64Add(bucket.size, TotalSize(file)),
                  !.files = Append(bucket.files, file) ]

\* The bucket fit appends when the file was added to none.
NewBucket(file, filename) ==
  [ filename |-> filename, size |-> file.CompressedSize64, files |-> << file >> ]

\* Index of the bucket at which the inner loop breaks, 0 when it runs out.
FirstFit(bs, file, cfg) ==
  IF \E b \in 1..Len(bs) : Fits(bs[b], file, cfg)
    THEN CHOOSE b \in 1..Len(bs) :
           /\ Fits(bs[b], file, cfg)
           /\ \A c \in 1..(b - 1) : ~Fits(bs[c], file, cfg)
    ELSE 0

\* An inner loop without the break: the file goes into every bucket that
\* passes the test.
FitFileNoBreak(bs, file, cfg, filename) ==
  IF \E b \in 1..Len(bs) : Fits(bs[b], file, cfg)
    THEN [ b \in 1..Len(bs) |->
             IF Fits(bs[b], file, cfg) THEN AddFile(bs[b], file) ELSE bs[b] ]
    ELSE Append(bs, NewBucket(file, filename))

\* One iteration of fit's outer loop: the buckets afterwards.
FitFile(bs, file, cfg, filename) ==
  LET b == FirstFit(bs, file, cfg)
  IN  IF b # 0
        THEN [ bs EXCEPT ![b] = AddFile(bs[b], file) ]
        ELSE Append(bs, NewBucket(file, filename))

-----------------------------------------------------------------------------
(* Bucket.makeZip *)

\* The copy loop over bucket.files against the reopened source directory src;
\* failAt is the index of the bucket file whose w.Copy fails (0: none does).
\* The result is the names written and whether the loop returned an error.
RECURSIVE CopyLoop(_, _, _, _, _)
CopyLoop(bfiles, src, failAt, j, written) ==
  IF j > Len(bfiles) THEN [ written |-> written, err |-> FALSE ]
  ELSE IF \E x \in 1..Len(src) : src[x].Name = bfiles[j].Name
    THEN IF failAt = j
           THEN [ written |-> written, err |-> TRUE ]
           ELSE CopyLoop(bfiles, src, failAt, j + 1, Append(written, bfiles[j].Name))
    ELSE CopyLoop(bfiles, src, failAt, j + 1, written)

\* makeZip for one bucket.  env gives what the operating system does:
\* openOK (zip.OpenReader), createOK (os.Create), failAt (w.Copy), closeOK
\* (the deferred w.Close), src (the directory found when reopening).
\* The result is the returned error and the output file left on disk
\* (created = FALSE when there is none).
MakeZipOutcome(bucket, env) ==
  IF ~env.openOK
    THEN [ err |-> TRUE, created |-> FALSE, entries |-> <<>>, finalized |-> FALSE ]
  ELSE IF ~env.createOK
    THEN [ err |-> TRUE, created |-> FALSE, entries |-> <<>>, finalized |-> FALSE ]
  ELSE LET c == CopyLoop(bucket.files, env.src, env.failAt, 1, <<>>)
       IN  [ err |-> c.err, created |-> TRUE, entries |-> c.written,
             finalized |-> env.closeOK ]

\* os.Create truncates a file of the same name; the finished file replaces it.
CreateFile(d, file) ==
  { f \in d : f.filename # file.filename } \cup { file }

\* Directories the reopened source may show: the one listed at start, or
\* that one with an entry removed in the meantime.
ReopenedSources(arch) ==
  { arch } \cup
  { SubSeq(arch, 1, x - 1) \o SubSeq(arch, x + 1, Len(arch)) : x \in 1..Len(arch) }

MakeZipEnvs(bucket, arch) ==
  [ openOK : BOOLEAN, createOK : BOOLEAN, failAt : 0..Len(bucket.files),
    closeOK : BOOLEAN, src : ReopenedSources(arch) ]

\* A main that goes on to the next bucket whatever makeZip returned.
AbortsNever(err) == FALSE

\* main's reaction to makeZip's result: log.Fatal on an error.
AbortsOnError(err) == err

-----------------------------------------------------------------------------
(* main *)

\* The condition of main's "Can never fit" branch, evaluated left to right.
PreCheckRejects(fs, cfg) ==
  Len(fs) < 1 \/ U64Less(cfg.splitSize, fs[1].CompressedSize64)

ZeroConfig == [ sourceArchive |-> "", nameTemplate |-> <<>>, splitSize |-> 0 ]

Init ==
  /\ sourceArchive \in SourceArchives
  /\ splitSizeString \in SizeStrings
  /\ nameTemplate \in Templates
  /\ archive \in Listings
  /\ config = ZeroConfig
  /\ files = <<>>
  /\ buckets = <<>>
  /\ n = 0
  /\ i = 0
  /\ k = 0
  /\ disk = {}
  /\ results = <<>>
  /\ steps = <<>>
  /\ pc = "checkInput"
  /\ exit = "running"

\* Lines 230-239: the -in check and the construction of config.
CheckInput ==
  /\ pc = "checkInput"
  /\ steps' = Append(steps, "checkInput")
  /\ IF sourceArchive = ""
       THEN /\ pc' = "exited"
            /\ exit' = "1"
            /\ UNCHANGED config
       ELSE /\ config' = [ sourceArchive |-> sourceArchive,
                           nameTemplate  |-> nameTemplate,
                           splitSize     |-> humanToNumber(splitSizeString) ]
            /\ pc' = "getZipContents"
            /\ UNCHANGED exit
  /\ UNCHANGED << sourceArchive, splitSizeString, nameTemplate, archive,
                  files, buckets, n, i, k, disk, results >>

\* Lines 241-244 and getZipContents: list the source, log.Fatal on an error.
GetZipContents ==
  /\ pc = "getZipContents"
  /\ steps' = Append(steps, "getZipContents")
  /\ \E openOK \in BOOLEAN :
       IF openOK
         THEN /\ files' = archive
              /\ pc' = "sort"
              /\ UNCHANGED exit
         ELSE /\ pc' = "exited"
              /\ exit' = "1"
              /\ UNCHANGED files
  /\ UNCHANGED << sourceArchive, splitSizeString, nameTemplate, archive,
                  config, buckets, n, i, k, disk, results >>

\* Line 245.
SortFiles ==
  /\ pc = "sort"
  /\ steps' = Append(steps, "sort")
  /\ files' \in SortOutcomes(files)
  /\ pc' = "preCheck"
  /\ UNCHANGED << sourceArchive, splitSizeString, nameTemplate, archive,
                  config, buckets, n, i, k, disk, results, exit >>

\* Lines 247-253.  Inside the branch files[0] is read: with an empty slice
\* that is an index out of range and the runtime panics.
PreCheck ==
  /\ pc = "preCheck"
  /\ steps' = Append(steps, "preCheck")
  /\ IF PreCheckRejects(files, config)
       THEN /\ pc' = "exited"
            /\ exit' = IF Len(files) < 1 THEN "panic" ELSE "1"
       ELSE /\ pc' = "fitNamer"
            /\ UNCHANGED exit
  /\ UNCHANGED << sourceArchive, splitSizeString, nameTemplate, archive,
                  config, files, buckets, n, i, k, disk, results >>

\* Lines 113-116 (and 255-259 when fit returns the error).
FitNamer ==
  /\ pc = "fitNamer"
  /\ steps' = Append(steps, "numberedFileNamer")
  /\ IF NamerRejects(config.nameTemplate)
       THEN /\ pc' = "exited"
            /\ exit' = "1"
            /\ UNCHANGED << n, i >>
       ELSE /\ n' = 1
            /\ i' = 1
            /\ pc' = "fit"
            /\ UNCHANGED exit
  /\ UNCHANGED << sourceArchive, splitSizeString, nameTemplate, archive,
                  config, files, buckets, k, disk, results >>

\* Lines 118-148: one iteration of the loop over files.
FitStep ==
  /\ pc = "fit"
  /\ i <= Len(files)
  /\ steps' = Append(steps, "fitFile")
  /\ buckets' = FitFile(buckets, files[i], config, NewZipName(config.nameTemplate, n))
  /\ n' = IF FirstFit(buckets, files[i], config) = 0 THEN n + 1 ELSE n
  /\ i' = i + 1
  /\ UNCHANGED << sourceArchive, splitSizeString, nameTemplate, archive,
                  config, files, k, disk, results, pc, exit >>

\* Line 150 and 255: fit returns the buckets to main.
FitReturn ==
  /\ pc = "fit"
  /\ i > Len(files)
  /\ steps' = Append(steps, "fitReturn")
  /\ k' = 1
  /\ pc' = "makeZips"
  /\ UNCHANGED << sourceArchive, splitSizeString, nameTemplate, archive,
                  config, files, buckets, n, i, disk, results, exit >>

\* Lines 261-266 with makeZip: materialize bucket k.
MakeZip ==
  /\ pc = "makeZips"
  /\ k <= Len(buckets)
  /\ steps' = Append(steps, "makeZip")
  /\ \E env \in MakeZipEnvs(buckets[k], archive) :
       LET out == MakeZipOutcome(buckets[k], env)
       IN  /\ disk' = IF out.created
                        THEN CreateFile(disk, [ filename  |-> buckets[k].filename,
                                                entries   |-> out.entries,
                                                finalized |-> out.finalized ])
                        ELSE disk
           /\ results' = Append(results, out.err)
           /\ IF AbortsOnError(out.err)
                THEN /\ pc' = "exited"
                     /\ exit' = "1"
                     /\ UNCHANGED k
                ELSE /\ k' = k + 1
                     /\ UNCHANGED << pc, exit >>
  /\ UNCHANGED << sourceArchive, splitSizeString, nameTemplate, archive,
                  config, files, buckets, n, i >>

\* Line 267: main returns.
MainReturn ==
  /\ pc = "makeZips"
  /\ k > Len(buckets)
  /\ steps' = Append(steps, "return")
  /\ pc' = "exited"
  /\ exit' = "0"
  /\ UNCHANGED << sourceArchive, splitSizeString, nameTemplate, archive,
                  config, files, buckets, n, i, k, disk, results >>

Next ==
  \/ CheckInput
  \/ GetZipContents
  \/ SortFiles
  \/ PreCheck
  \/ FitNamer
  \/ FitStep
  \/ FitReturn
  \/ MakeZip
  \/ MainReturn

Spec == Init /\ [][Next]_vars

-----------------------------------------------------------------------------
(* Vocabulary of the properties *)

\* The Size Model: the bytes one entry adds to an archive.
EntryCost(f) ==
  30 + 16 + 46 + 2 * Len(f.Name) + Len(f.Comment) + Len(f.Extra) + f.CompressedSize64

RECURSIVE SumCost(_)
SumCost(fs) == IF fs = <<>> THEN 0 ELSE EntryCost(Head(fs)) + SumCost(Tail(fs))

Names(fs) == [ j \in 1..Len(fs) |-> fs[j].Name ]

Did(step) == \E j \in 1..Len(steps) : steps[j] = step

LastStep == IF steps = <<>> THEN "none" ELSE steps[Len(steps)]

FileNames(d) == { f.filename : f \in d }

\* Number of places (bucket, position) at which header h is held.
Occurrences(h) ==
  Cardinality({ p \in UNION { { << b, j >> : j \in 1..Len(buckets[b].files) } :
                              b \in 1..Len(buckets) } :
                  buckets[p[1]].files[p[2]] = h })

RECURSIVE TotalEntries(_)
TotalEntries(bs) ==
  IF bs = <<>> THEN 0 ELSE Len(Head(bs).files) + TotalEntries(Tail(bs))

\* A template is invalid when its output ignores the number or shows a
\* formatting error.
InvalidTemplate(t) ==
  \/ \A x, y \in 0..MaxProbe : Sprintf(t, x) = Sprintf(t, y)
  \/ \E x \in 0..MaxProbe : ContainsBang(Sprintf(t, x))

\* The listing ordered by non-increasing compressed size, entries of equal
\* size in their original order.
StableDescending(arch) ==
  CHOOSE s \in [1..Len(arch) -> { arch[x] : x \in 1..Len(arch) }] :
    \E q \in Permutations(1..Len(arch)) :
      /\ s = [ j \in 1..Len(arch) |-> arch[q[j]] ]
      /\ \A x, y \in 1..Len(arch) : x < y =>
           \/ arch[q[x]].CompressedSize64 > arch[q[y]].CompressedSize64
           \/ /\ arch[q[x]].CompressedSize64 = arch[q[y]].CompressedSize64
              /\ q[x] < q[y]

-----------------------------------------------------------------------------
(* Properties *)

\* C1: once fit has returned, the Size-Model costs of the entries of every
\* bucket sum up to at most bound - 22.
C1_BoundInvariant ==
  Did("fitReturn") =>
    \A b \in 1..Len(buckets) :
      SumCost(buckets[b].files) <= config.splitSize - 22

\* C2: once fit has returned, every entry of the source listing is held in
\* exactly one bucket, exactly once, and the buckets hold as many entries as
\* the listing has.
C2_Completeness ==
  Did("fitReturn") =>
    /\ \A x \in 1..Len(archive) : Occurrences(archive[x]) = 1
    /\ TotalEntries(buckets) = Len(archive)

\* C2 witness: fit has returned several buckets, one of them with several
\* entries.
C2_Witness ==
  /\ Did("fitReturn")
  /\ Len(buckets) >= 2
  /\ \E b \in 1..Len(buckets) : Len(buckets[b].files) >= 2

\* C3: when some listed entry costs more than bound - 22, the run is rejected:
\* packing is never entered, no bucket and no output file exist, and the run
\* does not end with success.
C3_UnfittableRejected ==
  (\E x \in 1..Len(files) : EntryCost(files[x]) > config.splitSize - 22) =>
    /\ pc \notin { "fitNamer", "fit", "makeZips" }
    /\ buckets = <<>>
    /\ disk = {}
    /\ exit # "0"

\* C4: when the size string parses to 0 and the listing has an entry, the run
\* is rejected: packing is never entered, no bucket and no output file exist.
C4_ZeroBoundRejected ==
  (humanToNumber(splitSizeString) = 0 /\ Len(files) >= 1) =>
    /\ pc \notin { "fitNamer", "fit", "makeZips" }
    /\ buckets = <<>>
    /\ disk = {}
    /\ exit # "0"

\* C5 (as claimed): with an invalid template the run never succeeds and writes
\* nothing, and neither the source listing, the sort, the unfittable check nor
\* packing is executed: the template check comes before all of them.
C5_TemplateCheckedFirst ==
  InvalidTemplate(nameTemplate) =>
    /\ exit # "0"
    /\ disk = {}
    /\ ~Did("getZipContents")
    /\ ~Did("sort")
    /\ ~Did("preCheck")
    /\ ~Did("fitFile")

\* C5 (amended): with an invalid template no bucket is ever created, no
\* output file is ever written, packing and assembly are never entered, the
\* run never ends with success, and the template check, once executed, ends
\* the run with exit status 1.
C5_TemplateCheckedBeforePacking ==
  InvalidTemplate(nameTemplate) =>
    /\ buckets = <<>>
    /\ disk = {}
    /\ pc \notin { "fit", "makeZips" }
    /\ exit # "0"
    /\ ~Did("fitFile")
    /\ ~Did("makeZip")
    /\ (LastStep = "numberedFileNamer" => pc = "exited" /\ exit = "1")

\* C5 witness: the template check has rejected an invalid template, after the
\* source was listed, sorted and checked.
C5_Witness ==
  /\ InvalidTemplate(nameTemplate)
  /\ LastStep = "numberedFileNamer"
  /\ Did("preCheck")
  /\ exit = "1"

C7_StableDescendingSort ==
  Did("sort") => files = StableDescending(archive)

\* C8: with an empty source listing the run ends in a controlled way: no
\* bucket, no output file, and no out-of-range access (no panic).
C8_EmptyListingControlled ==
  (Did("getZipContents") /\ archive = <<>>) =>
    /\ buckets = <<>>
    /\ disk = {}
    /\ exit # "panic"

\* C9: whenever makeZip returned no error for a bucket, the bucket's output
\* file holds exactly the bucket's entries, in bucket order, and is finalized.
C9_SuccessMeansComplete ==
  \A b \in 1..Len(results) :
    ~results[b] =>
      \E f \in disk :
        /\ f.filename = buckets[b].filename
        /\ f.entries = Names(buckets[b].files)
        /\ f.finalized

\* C10: a step of fit puts the file into the earliest bucket whose total plus
\* the file's cost does not exceed bound - 22, opens a new bucket holding only
\* this file and named by the namer's next value exactly when there is no such
\* bucket, never shrinks a total, and every bucket's total is the sum of the
\* Size-Model costs of its entries.
C10_FirstFitPlacement ==
  [][ (steps' = Append(steps, "fitFile")) =>
        LET f    == files[i]
            fits == { b \in 1..Len(buckets) :
                        U64Leq(buckets[b].size + EntryCost(f),
                               U64Sub(config.splitSize, 22)) }
        IN  /\ IF fits # {}
                 THEN LET b == CHOOSE c \in fits : \A d \in fits : c <= d
                      IN  /\ Len(buckets') = Len(buckets)
                          /\ buckets'[b].files = Append(buckets[b].files, f)
                          /\ \A c \in 1..Len(buckets) : c # b => buckets'[c] = buckets[c]
                 ELSE /\ Len(buckets') = Len(buckets) + 1
                      /\ buckets'[Len(buckets')].files = << f >>
                      /\ buckets'[Len(buckets')].filename = Sprintf(config.nameTemplate, n)
                      /\ \A c \in 1..Len(buckets) : buckets'[c] = buckets[c]
            /\ \A c \in 1..Len(buckets) : buckets'[c].size >= buckets[c].size
            /\ \A c \in 1..Len(buckets') : buckets'[c].size = SumCost(buckets'[c].files)
    ]_vars

=============================================================================
